---- MODULE Spec2Model ----
(***************************************************************************)
(* A model of scanner.py, the Form 4 insider-buying scanner.               *)
(*                                                                         *)
(* Money is counted in cents (integers): shares are whole numbers, prices  *)
(* are cents per share, and the 15000 dollar threshold is 1500000 cents.   *)
(* round(total, 2) leaves a whole number of cents unchanged.  Dates are    *)
(* the ISO strings read as the number yyyymmdd, so that the order of the   *)
(* numbers is the lexicographic order of the strings; 0 is the empty       *)
(* string.  Tickers are sequences of one-character strings.                *)
(***************************************************************************)
EXTENDS Integers, Sequences, FiniteSets, TLC

VARIABLES pc, feed, idx, hits, sector_counts, grouped, blocks, analysts,
          report, streak, arg, ret

vars == <<pc, feed, idx, hits, sector_counts, grouped, blocks, analysts,
          report, streak, arg, ret>>

(***************************************************************************)
(* Bounds of the model.                                                    *)
(***************************************************************************)
MaxTx == 2
MaxFeed == 3
MaxItems == 2
MaxSectors == 2
MaxPerSector == 3

(***************************************************************************)
(* Constants of the program.                                               *)
(***************************************************************************)
MIN_CENTS == 1500000
MIN_RAISE_PCT == 7
MAX_UPGRADES == 5

NoRet == [status |-> "pending"]

(***************************************************************************)
(* Strings as sequences of characters: str.upper and str.startswith.       *)
(***************************************************************************)
LowerCase == <<"a","b","c","d","e","f","g","h","i","j","k","l","m",
               "n","o","p","q","r","s","t","u","v","w","x","y","z">>
UpperCase == <<"A","B","C","D","E","F","G","H","I","J","K","L","M",
               "N","O","P","Q","R","S","T","U","V","W","X","Y","Z">>

UpperChar(c) ==
    IF \E i \in 1..26 : LowerCase[i] = c
    THEN UpperCase[CHOOSE i \in 1..26 : LowerCase[i] = c]
    ELSE c

Upper(s) == [i \in 1..Len(s) |-> UpperChar(s[i])]

StartsWith(s, prefixes) ==
    \E p \in prefixes : Len(p) <= Len(s) /\ SubSeq(s, 1, Len(p)) = p

infer_sector(ticker) ==
    IF ticker = <<>> THEN "Unknown"
    ELSE LET t == Upper(ticker) IN
         IF StartsWith(t, {<<"X","O","M">>, <<"C","V","X">>, <<"B","P">>,
                           <<"C","O","P">>})
         THEN "Energy"
         ELSE IF StartsWith(t, {<<"M","R","N","A">>, <<"B","I","I","B">>,
                                <<"P","F","E">>, <<"J","N","J">>})
         THEN "Biotech / Pharma"
         ELSE IF StartsWith(t, {<<"A","A","P","L">>, <<"M","S","F","T">>,
                                <<"N","V","D","A">>, <<"A","M","D">>,
                                <<"G","O","O","G">>})
         THEN "Technology"
         ELSE IF StartsWith(t, {<<"J","P","M">>, <<"B","A","C">>,
                                <<"G","S">>, <<"W","F","C">>})
         THEN "Financials"
         ELSE "Other"

(***************************************************************************)
(* Form 4 documents as ElementTree sees them.                              *)
(*   xml_ok    the bytes are well-formed XML                               *)
(*   issuer    an <issuer> element is present; ticker is the text of its   *)
(*             issuerTradingSymbol (<<>> when that element is absent)      *)
(*   owner     "ok", "none" (no reportingOwner) or "noid" (a               *)
(*             reportingOwner without reportingOwnerId)                    *)
(*   title     the officerTitle text, "" when the relationship or the      *)
(*             title is absent or empty                                    *)
(*   table     a nonDerivativeTable element is present                     *)
(*   txs       its nonDerivativeTransaction elements                       *)
(* A line item has                                                         *)
(*   coding    transactionCoding is present; code is its transactionCode   *)
(*   dateEl    transactionDate is present; date is its value (0 for "")    *)
(*   amounts   "ok", "none" (no transactionAmounts), "noshares" or         *)
(*             "noprice" (the sub-element is absent)                       *)
(*   shares, price   the text of the value elements, see Text              *)
(***************************************************************************)

\* The text found for a number: k = "num" is the decimal numeral of n,
\* "absent" is no <value> element (findtext returns its default), "empty"
\* is an empty <value/>, "junk" is text float() does not accept.
Num(n) == [k |-> "num", n |-> n]
Absent == [k |-> "absent", n |-> 0]
Empty == [k |-> "empty", n |-> 0]
Junk == [k |-> "junk", n |-> 0]

\* float(findtext("value", "0")) of transactionShares
FloatShares(t) ==
    CASE t.k = "num" -> [ok |-> TRUE, v |-> t.n]
      [] t.k = "absent" -> [ok |-> TRUE, v |-> 0]
      [] OTHER -> [ok |-> FALSE, v |-> 0]

\* float(findtext("value", "0") or 0) of transactionPricePerShare
FloatPrice(t) ==
    CASE t.k = "num" -> [ok |-> TRUE, v |-> t.n]
      [] t.k = "absent" -> [ok |-> TRUE, v |-> 0]
      [] t.k = "empty" -> [ok |-> TRUE, v |-> 0]
      [] OTHER -> [ok |-> FALSE, v |-> 0]

\* One pass of the loop body of parse_form4 over line item tx, from the
\* accumulator acc = [total, date, raised].
LineItemStep(acc, tx) ==
    IF acc.raised THEN acc
    ELSE IF ~tx.coding THEN [acc EXCEPT !.raised = TRUE]
    ELSE IF tx.code # "P" THEN acc
    ELSE IF ~tx.dateEl THEN [acc EXCEPT !.raised = TRUE]
    ELSE LET d == tx.date IN
         IF tx.amounts \in {"none", "noshares"}
         THEN [acc EXCEPT !.date = d, !.raised = TRUE]
         ELSE IF ~FloatShares(tx.shares).ok
         THEN [acc EXCEPT !.date = d, !.raised = TRUE]
         ELSE IF tx.amounts = "noprice" \/ ~FloatPrice(tx.price).ok
         THEN [acc EXCEPT !.date = d, !.raised = TRUE]
         ELSE [acc EXCEPT !.date = d,
                          !.total = acc.total
                                    + FloatShares(tx.shares).v
                                      * FloatPrice(tx.price).v]

RECURSIVE LineItems(_, _)
LineItems(acc, txs) ==
    IF txs = <<>> THEN acc
    ELSE LineItems(LineItemStep(acc, Head(txs)), Tail(txs))

\* round(total, 2): a whole number of cents is its own rounding
Round2(cents) == cents

BelowMinimum_excl(total) == total <= MIN_CENTS

\* total < 15000
BelowMinimum(total) == total < MIN_CENTS

NoTx == [ticker |-> <<>>, owner |-> "", role |-> "", total |-> 0, date |-> 0]
Raise == [status |-> "raise", tx |-> NoTx]
None == [status |-> "none", tx |-> NoTx]

parse_form4(doc) ==
    IF ~doc.xml_ok THEN Raise
    ELSE IF doc.owner # "ok" THEN Raise
    ELSE IF ~doc.table THEN None
    ELSE LET acc == LineItems([total |-> 0, date |-> 0, raised |-> FALSE],
                              doc.txs)
         IN IF acc.raised THEN Raise
            ELSE IF BelowMinimum(acc.total) THEN None
            ELSE [status |-> "ok",
                  tx |-> [ticker |-> IF doc.issuer THEN doc.ticker ELSE <<>>,
                          owner |-> doc.owner_name,
                          role |-> IF doc.title # "" THEN doc.title
                                   ELSE "Insider",
                          total |-> Round2(acc.total),
                          date |-> acc.date]]

(***************************************************************************)
(* The documents the unit specification of parse_form4 ranges over.        *)
(***************************************************************************)
Dates == {20240301, 20240305}

\* <<shares, price in cents>>: 100 x 150.00 is the threshold exactly,
\* 1 x 14999.99 is one cent short of it, 1 x 0.01 makes it up.
Amounts == {<<0, 15000>>, <<100, 0>>, <<100, 15000>>, <<1, 1499999>>, <<1, 1>>}

Item(code, date, shares, price) ==
    [coding |-> TRUE, code |-> code, dateEl |-> TRUE, date |-> date,
     amounts |-> "ok", shares |-> shares, price |-> price]

PurchaseItems ==
    {Item("P", d, Num(a[1]), Num(a[2])) : d \in Dates, a \in Amounts}

SaleItems == {Item("S", 20240305, Num(100), Num(15000))}

BaseItem == Item("P", 20240301, Num(100), Num(15000))

DefectiveItems ==
    {[BaseItem EXCEPT !.coding = FALSE],
     [BaseItem EXCEPT !.coding = FALSE, !.code = "S"],
     [BaseItem EXCEPT !.dateEl = FALSE],
     [BaseItem EXCEPT !.date = 0],
     [BaseItem EXCEPT !.amounts = "none"],
     [BaseItem EXCEPT !.amounts = "noshares"],
     [BaseItem EXCEPT !.amounts = "noprice"],
     [BaseItem EXCEPT !.shares = Absent],
     [BaseItem EXCEPT !.shares = Empty],
     [BaseItem EXCEPT !.shares = Junk],
     [BaseItem EXCEPT !.price = Absent],
     [BaseItem EXCEPT !.price = Empty],
     [BaseItem EXCEPT !.price = Junk],
     [BaseItem EXCEPT !.code = "S", !.amounts = "none"]}

AllItems == PurchaseItems \cup SaleItems \cup DefectiveItems

SeqsUpTo(S, n) == UNION {[1..k -> S] : k \in 0..n}

XOM == <<"X","O","M">>
AAPL == <<"A","A","P","L">>
Blank == <<" ">>

Doc(ticker, owner_name, title, txs) ==
    [xml_ok |-> TRUE, issuer |-> TRUE, ticker |-> ticker, owner |-> "ok",
     owner_name |-> owner_name, title |-> title, table |-> TRUE, txs |-> txs]

Shapes(d) ==
    {d,
     [d EXCEPT !.xml_ok = FALSE],
     [d EXCEPT !.issuer = FALSE, !.ticker = <<>>],
     [d EXCEPT !.owner = "none"],
     [d EXCEPT !.owner = "noid"],
     [d EXCEPT !.table = FALSE, !.txs = <<>>]}

(***************************************************************************)
(* SpecParse: parse_form4 applied to one document.                         *)
(***************************************************************************)
Idle ==
    /\ feed = <<>> /\ idx = 0 /\ hits = <<>> /\ sector_counts = <<>>
    /\ grouped = <<>> /\ blocks = <<>> /\ analysts = <<>>
    /\ report = NoRet /\ streak = 0

InitParse ==
    /\ Idle
    /\ pc = "parse_form4"
    /\ \E txs \in SeqsUpTo(AllItems, MaxTx) :
          arg \in Shapes(Doc(XOM, "Alice", "CEO", txs))
    /\ ret = NoRet

CallParse ==
    /\ pc = "parse_form4"
    /\ ret' = parse_form4(arg)
    /\ pc' = "returned"
    /\ UNCHANGED <<feed, idx, hits, sector_counts, grouped, blocks, analysts,
                   report, streak, arg>>

NextParse == CallParse

SpecParse == InitParse /\ [][NextParse]_vars

\* The purchase line items of a document and their aggregate value.
IsPurchase(tx) == tx.coding /\ tx.code = "P"

RECURSIVE PurchaseTotal(_)
PurchaseTotal(txs) ==
    IF txs = <<>> THEN 0
    ELSE (IF IsPurchase(Head(txs))
          THEN FloatShares(Head(txs).shares).v * FloatPrice(Head(txs).price).v
          ELSE 0) + PurchaseTotal(Tail(txs))

Returned == pc = "returned" /\ ret.status \in {"ok", "none"}

\* C1: for a document parse_form4 can parse, a transaction is returned iff
\* the sum of shares x price over its code-P line items is at least the
\* threshold; in particular purchases with shares = 0 or price = 0 only
\* yield no transaction.
C1_AcceptIffAtLeastMin ==
    Returned =>
        /\ (ret.status = "ok") <=> (PurchaseTotal(arg.txs) >= MIN_CENTS)
        /\ ret.status = "ok" => ret.tx.total = PurchaseTotal(arg.txs)
        /\ (\A i \in 1..Len(arg.txs) :
               IsPurchase(arg.txs[i]) =>
                   \/ FloatShares(arg.txs[i].shares).v = 0
                   \/ FloatPrice(arg.txs[i].price).v = 0)
           => ret.status = "none"

\* A document whose purchases sum to exactly the threshold was accepted.
C1_Witness ==
    /\ Returned
    /\ ret.status = "ok"
    /\ PurchaseTotal(arg.txs) = MIN_CENTS

PurchaseDates(txs) == {txs[i].date : i \in {j \in 1..Len(txs) : IsPurchase(txs[j])}}

SetMax(S) == CHOOSE m \in S : \A x \in S : x <= m

\* C7: the date of the returned transaction is the maximum of the dates of
\* the code-P line items of the document, whatever their order.
C7_DateIsLatestPurchase ==
    (Returned /\ ret.status = "ok") =>
        ret.tx.date = SetMax(PurchaseDates(arg.txs))


(***************************************************************************)
(* Python dictionaries keep their keys in insertion order: a dictionary is *)
(* the sequence of its [key, val] pairs.                                   *)
(***************************************************************************)
HasKey(d, k) == \E i \in 1..Len(d) : d[i].key = k

KeyIndex(d, k) == CHOOSE i \in 1..Len(d) : d[i].key = k

ListAppend_overwrite(d, k, v) ==
    IF HasKey(d, k)
    THEN [d EXCEPT ![KeyIndex(d, k)].val = <<v>>]
    ELSE Append(d, [key |-> k, val |-> <<v>>])

\* grouped[k].append(v) on a defaultdict(list)
ListAppend(d, k, v) ==
    IF HasKey(d, k)
    THEN [d EXCEPT ![KeyIndex(d, k)].val = Append(@, v)]
    ELSE Append(d, [key |-> k, val |-> <<v>>])

\* sector_counts[k] += 1 on a defaultdict(int)
CountIncr(d, k) ==
    IF HasKey(d, k)
    THEN [d EXCEPT ![KeyIndex(d, k)].val = @ + 1]
    ELSE Append(d, [key |-> k, val |-> 1])

RECURSIVE SumTotals(_)
SumTotals(items) ==
    IF items = <<>> THEN 0
    ELSE Head(items).total + SumTotals(Tail(items))

(***************************************************************************)
(* fetch_analyst_upgrades.  The environment of a call is                   *)
(*   api_key   FMP_API_KEY is set and not empty                            *)
(*   http_ok   http_get returns a body                                     *)
(*   json_ok   the body decodes as JSON                                    *)
(*   data      the decoded value: t is "list", "dict", "str", "null" or    *)
(*             "num", and items is what iterating over it yields (the      *)
(*             elements of a list, the keys of a dict, the characters of   *)
(*             a string)                                                   *)
(* An item with obj = TRUE is a JSON object, and old and new are its       *)
(* priceTargetPrior and priceTarget; any other item has obj = FALSE.  A    *)
(* value is a number (k = "num"), null or a missing key (k = "null"), or   *)
(* a string (k = "str", where n = 0 is the empty string and the order of   *)
(* the n is the order of the strings).                                     *)
(***************************************************************************)
JNum(n) == [k |-> "num", n |-> n]
JNull == [k |-> "null", n |-> 0]
JStr(n) == [k |-> "str", n |-> n]

\* not v
Falsy(v) == v.k = "null" \/ v.n = 0

\* the nearest integer to num / den (den > 0), ties to the even one
RoundHalfEven(num, den) ==
    LET q == num \div den
        r == num % den
    IN IF 2 * r < den THEN q
       ELSE IF 2 * r > den THEN q + 1
       ELSE IF q % 2 = 0 THEN q ELSE q + 1

PctBelowMin_excl(old, new) ==
    IF old > 0 THEN (new - old) * 100 <= MIN_RAISE_PCT * old
    ELSE (new - old) * 100 >= MIN_RAISE_PCT * old

\* pct = (new - old) / old; pct < 0.07, for old # 0
PctBelowMin(old, new) ==
    IF old > 0 THEN (new - old) * 100 < MIN_RAISE_PCT * old
    ELSE (new - old) * 100 > MIN_RAISE_PCT * old

\* One pass of the loop body over item, from acc = [results, raised].
UpgradeStep(acc, item) ==
    IF acc.raised THEN acc
    ELSE IF ~item.obj THEN [acc EXCEPT !.raised = TRUE]
    ELSE LET old == item.old
             new == item.new
         IN IF Falsy(old) \/ Falsy(new) THEN acc
            ELSE IF old.k # new.k THEN [acc EXCEPT !.raised = TRUE]
            ELSE IF new.n <= old.n THEN acc
            ELSE IF old.k = "str" THEN [acc EXCEPT !.raised = TRUE]
            ELSE IF PctBelowMin(old.n, new.n) THEN acc
            ELSE [acc EXCEPT !.results =
                      Append(@, [symbol |-> item.symbol,
                                 analyst |-> item.analyst,
                                 old |-> old.n,
                                 new |-> new.n,
                                 pct |-> RoundHalfEven((new.n - old.n) * 1000,
                                                       old.n)])]

RECURSIVE Upgrades(_, _)
Upgrades(acc, items) ==
    IF items = <<>> THEN acc
    ELSE Upgrades(UpgradeStep(acc, Head(items)), Tail(items))

\* results[:5]
Truncate(results) ==
    SubSeq(results, 1, IF Len(results) < MAX_UPGRADES THEN Len(results)
                       ELSE MAX_UPGRADES)

fetch_analyst_upgrades(env) ==
    IF ~env.api_key THEN [status |-> "ok", results |-> <<>>]
    ELSE IF ~env.http_ok \/ ~env.json_ok THEN [status |-> "ok", results |-> <<>>]
    ELSE IF env.data.t \in {"null", "num"} THEN [status |-> "raise", results |-> <<>>]
    ELSE LET acc == Upgrades([results |-> <<>>, raised |-> FALSE],
                             env.data.items)
         IN IF acc.raised THEN [status |-> "raise", results |-> <<>>]
            ELSE [status |-> "ok", results |-> Truncate(acc.results)]

(***************************************************************************)
(* The environments the unit specification of fetch_analyst_upgrades       *)
(* ranges over.                                                            *)
(***************************************************************************)
Revision(old, new) ==
    [obj |-> TRUE, symbol |-> "XOM", analyst |-> "Acme", old |-> old, new |-> new]

NotAnObject ==
    [obj |-> FALSE, symbol |-> "", analyst |-> "", old |-> JNull, new |-> JNull]

Revisions ==
    {Revision(JNum(100), n) :
         n \in {JNum(0), JNum(100), JNum(106), JNum(107), JNum(108), JNull,
                JStr(2)}}
    \cup {Revision(JNum(0), JNum(108)), Revision(JNull, JNum(108)),
          Revision(JNum(-100), JNum(-50)), Revision(JNum(-100), JNum(100)),
          Revision(JStr(0), JNum(108)), Revision(JStr(1), JNum(108)),
          Revision(JStr(1), JStr(0)), Revision(JStr(1), JStr(1)),
          Revision(JStr(1), JStr(2))}

JsonItems == Revisions \cup {NotAnObject}

Env(data) == [api_key |-> TRUE, http_ok |-> TRUE, json_ok |-> TRUE, data |-> data]

JList(items) == [t |-> "list", items |-> items]

Bodies(n) ==
    {JList(items) : items \in SeqsUpTo(JsonItems, n)}
    \cup {JList([i \in 1..(MAX_UPGRADES + 1) |-> Revision(JNum(100), new)]) :
              new \in {JNum(106), JNum(108)}}
    \cup {[t |-> "dict", items |-> <<>>],
          [t |-> "dict", items |-> <<NotAnObject>>],
          [t |-> "str", items |-> <<>>],
          [t |-> "str", items |-> <<NotAnObject>>],
          [t |-> "null", items |-> <<>>],
          [t |-> "num", items |-> <<>>]}

AnalystEnvs(n) ==
    {Env(b) : b \in Bodies(n)}
    \cup {[Env(JList(<<Revision(JNum(100), JNum(108))>>)) EXCEPT !.api_key = FALSE],
          [Env(JList(<<Revision(JNum(100), JNum(108))>>)) EXCEPT !.http_ok = FALSE],
          [Env(JList(<<>>)) EXCEPT !.json_ok = FALSE]}

(***************************************************************************)
(* SpecAnalyst: fetch_analyst_upgrades applied to one environment.         *)
(***************************************************************************)
InitAnalyst ==
    /\ Idle
    /\ pc = "fetch_analyst_upgrades"
    /\ arg \in AnalystEnvs(MaxItems)
    /\ ret = NoRet

CallAnalyst ==
    /\ pc = "fetch_analyst_upgrades"
    /\ ret' = fetch_analyst_upgrades(arg)
    /\ pc' = "returned"
    /\ UNCHANGED <<feed, idx, hits, sector_counts, grouped, blocks, analysts,
                   report, streak, arg>>

NextAnalyst == CallAnalyst

SpecAnalyst == InitAnalyst /\ [][NextAnalyst]_vars

\* The revisions of the body (a list of objects with numeric targets) that
\* clear the filter: prior target > 0, new > prior, raise of at least 7%.
Qualifies(item) ==
    /\ item.obj
    /\ item.old.k = "num" /\ item.new.k = "num"
    /\ item.old.n > 0
    /\ item.new.n > item.old.n
    /\ (item.new.n - item.old.n) * 100 >= MIN_RAISE_PCT * item.old.n

\* C4: every returned signal has a prior target > 0, a new target above it
\* and a raise of at least 7%; a revision at or above the threshold passes
\* and one below it, or one with a missing or zero prior target, does not
\* (100 -> 106 is rejected, 100 -> 108 is accepted).
C4_SignalsClearTheFilter ==
    (pc = "returned" /\ ret.status = "ok") =>
        /\ \A i \in 1..Len(ret.results) :
              /\ ret.results[i].old > 0
              /\ ret.results[i].new > ret.results[i].old
              /\ (ret.results[i].new - ret.results[i].old) * 100
                     >= MIN_RAISE_PCT * ret.results[i].old
        /\ (arg.api_key /\ arg.http_ok /\ arg.json_ok) =>
              LET passed == SelectSeq(arg.data.items, Qualifies)
              IN /\ Len(ret.results) = (IF Len(passed) < MAX_UPGRADES
                                        THEN Len(passed) ELSE MAX_UPGRADES)
                 /\ \A i \in 1..Len(ret.results) :
                       /\ ret.results[i].old = passed[i].old.n
                       /\ ret.results[i].new = passed[i].new.n

\* A body holding a raise of exactly 7% and one of 6%: the first was kept,
\* the second was not.
C4_Witness ==
    /\ pc = "returned" /\ ret.status = "ok"
    /\ arg.data.t = "list"
    /\ \E i, j \in 1..Len(arg.data.items) :
          /\ arg.data.items[i] = Revision(JNum(100), JNum(107))
          /\ arg.data.items[j] = Revision(JNum(100), JNum(106))
    /\ Len(ret.results) = 1
    /\ ret.results[1].new = 107

\* C5: fetch_analyst_upgrades returns (the empty sequence on a missing key,
\* a failed fetch, an undecodable body or a malformed collection) and never
\* raises.
C5_NeverRaises ==
    pc = "returned" =>
        /\ ret.status = "ok"
        /\ (~arg.api_key \/ ~arg.http_ok \/ ~arg.json_ok
            \/ arg.data.t # "list"
            \/ \E i \in 1..Len(arg.data.items) :
                  \/ ~arg.data.items[i].obj
                  \/ arg.data.items[i].old.k = "str"
                  \/ arg.data.items[i].new.k = "str")
           => ret.results = <<>>

(***************************************************************************)
(* meta_signal_block and daily_market_snapshot.  The HTML card is          *)
(* represented by the three sentences chosen for it.                       *)
(***************************************************************************)
Accelerating_excl(insider_count) == insider_count > 5

\* insider_count >= 5
Accelerating(insider_count) == insider_count >= 5

\* insider_count >= 2
Selective(insider_count) == insider_count >= 2

InsiderTrend(insider_count) ==
    IF Accelerating(insider_count) THEN "accelerating"
    ELSE IF Selective(insider_count) THEN "selective"
    ELSE "muted"

\* max(sector_counts, key=sector_counts.get): the first key, in insertion
\* order, that carries the largest count
TopSector(sector_cnts) ==
    LET i == CHOOSE i \in 1..Len(sector_cnts) :
                 /\ \A j \in 1..Len(sector_cnts) :
                       sector_cnts[j].val <= sector_cnts[i].val
                 /\ \A j \in 1..(i - 1) :
                       sector_cnts[j].val < sector_cnts[i].val
    IN sector_cnts[i].key

SectorLine(sector_cnts) ==
    IF sector_cnts # <<>> /\ TopSector(sector_cnts) # "Other"
    THEN [line |-> "concentrated", sector |-> TopSector(sector_cnts)]
    ELSE [line |-> "dispersed", sector |-> ""]

AnalystLine(analyst_count) ==
    IF analyst_count >= 3 THEN "increasing" ELSE "selective"

meta_signal_block(insider_count, sector_cnts, analyst_count) ==
    [insider_trend |-> InsiderTrend(insider_count),
     sector_line |-> SectorLine(sector_cnts),
     analyst_line |-> AnalystLine(analyst_count)]

daily_market_snapshot(hs, as) ==
    [insider_state |-> IF hs # <<>> THEN "elevated" ELSE "subdued",
     analyst_state |-> IF as # <<>> THEN "optimism" ELSE "muted"]

(***************************************************************************)
(* SpecMeta: meta_signal_block applied to one histogram, with the insider  *)
(* count that main passes with it (the sum of the histogram).              *)
(***************************************************************************)
SectorNames == {"Unknown", "Energy", "Biotech / Pharma", "Technology",
                "Financials", "Other"}

Histograms(n, m) ==
    {h \in SeqsUpTo([key : SectorNames, val : 1..m], n) :
        \A i, j \in 1..Len(h) : i # j => h[i].key # h[j].key}

RECURSIVE SumVals(_)
SumVals(d) == IF d = <<>> THEN 0 ELSE Head(d).val + SumVals(Tail(d))

InitMeta ==
    /\ Idle
    /\ pc = "meta_signal_block"
    /\ \E h \in Histograms(MaxSectors, MaxPerSector), n \in 0..MAX_UPGRADES :
          arg = [insider_count |-> SumVals(h), sector_counts |-> h,
                 analyst_count |-> n]
    /\ ret = NoRet

CallMeta ==
    /\ pc = "meta_signal_block"
    /\ ret' = meta_signal_block(arg.insider_count, arg.sector_counts,
                                arg.analyst_count)
    /\ pc' = "returned"
    /\ UNCHANGED <<feed, idx, hits, sector_counts, grouped, blocks, analysts,
                   report, streak, arg>>

NextMeta == CallMeta

SpecMeta == InitMeta /\ [][NextMeta]_vars

BandRank(band) ==
    CASE band = "muted" -> 0
      [] band = "selective" -> 1
      [] band = "accelerating" -> 2

Bands == {"muted", "selective", "accelerating"}

\* C9: the insider narrative is exactly one of three bands, fixed by the
\* count (accelerating from 5, selective from 2 to 4, muted below 2) and
\* monotone in it; with no transactions, an empty histogram and no analyst
\* signals the block is muted, dispersed and selective; and "Other" is
\* never reported as the sector of concentration.
C9_NarrativeBands ==
    pc = "returned" =>
        /\ ret.insider_trend \in Bands
        /\ ret.insider_trend = "accelerating" <=> arg.insider_count >= 5
        /\ ret.insider_trend = "selective" <=>
               (arg.insider_count >= 2 /\ arg.insider_count < 5)
        /\ ret.insider_trend = "muted" <=> arg.insider_count < 2
        /\ \A m \in 0..arg.insider_count :
               BandRank(InsiderTrend(m)) <= BandRank(ret.insider_trend)
        /\ (arg.insider_count = 0 /\ arg.sector_counts = <<>>
            /\ arg.analyst_count = 0) =>
               /\ ret.insider_trend = "muted"
               /\ ret.sector_line.line = "dispersed"
               /\ ret.analyst_line = "selective"
        /\ ret.sector_line.sector # "Other"
        /\ (arg.sector_counts # <<>> /\ TopSector(arg.sector_counts) = "Other")
               => ret.sector_line.line = "dispersed"

\* Five transactions, most of them in the "Other" bucket: the block is
\* accelerating and dispersed.
C9_Witness ==
    /\ pc = "returned"
    /\ arg.insider_count = 5
    /\ Len(arg.sector_counts) = 2
    /\ TopSector(arg.sector_counts) = "Other"
    /\ ret.insider_trend = "accelerating"
    /\ ret.sector_line.line = "dispersed"

(***************************************************************************)
(* main.  A feed entry is                                                  *)
(*   updated   "" (no atom:updated text), "bad" (text fromisoformat        *)
(*             rejects), "old" (before the cutoff) or "fresh"              *)
(*   link      the entry has an alternate link                             *)
(*   page      "httperror" (an http_get of the pass fails), "noxml" (no    *)
(*             line of the page names a form4 .xml) or "xml"               *)
(*   doc       the document behind the .xml link                           *)
(***************************************************************************)
Filing(doc) == [updated |-> "fresh", link |-> TRUE, page |-> "xml", doc |-> doc]

AtThreshold == Item("P", 20240301, Num(100), Num(15000))
Later == Item("P", 20240305, Num(100), Num(15000))
Short == Item("P", 20240301, Num(1), Num(1499999))

AliceXOM == Doc(XOM, "Alice", "CEO", <<AtThreshold>>)
BobXOM == Doc(XOM, "Bob", "", <<Later, Short>>)
CarolAAPL == Doc(AAPL, "Carol", "CFO", <<Later>>)
DaveNoIssuer == [Doc(<<>>, "Dave", "", <<AtThreshold>>) EXCEPT !.issuer = FALSE]
ErinBlank == Doc(Blank, "Erin", "", <<AtThreshold>>)
SmallXOM == Doc(XOM, "Frank", "", <<Short>>)
NoOwner == [Doc(XOM, "", "", <<AtThreshold>>) EXCEPT !.owner = "none"]

FeedDocs == {AliceXOM, BobXOM, CarolAAPL, DaveNoIssuer, ErinBlank, SmallXOM,
             NoOwner}

FeedEntries ==
    {Filing(d) : d \in FeedDocs}
    \cup {[Filing(AliceXOM) EXCEPT !.updated = ""],
          [Filing(AliceXOM) EXCEPT !.updated = "bad"],
          [Filing(AliceXOM) EXCEPT !.updated = "old"],
          [Filing(AliceXOM) EXCEPT !.link = FALSE],
          [Filing(AliceXOM) EXCEPT !.page = "noxml"],
          [Filing(AliceXOM) EXCEPT !.page = "httperror"]}

MainEnvs ==
    {Env(JList(<<>>)),
     Env(JList(<<Revision(JNum(100), JNum(108))>>)),
     Env([t |-> "dict", items |-> <<NotAnObject>>]),
     [Env(JList(<<>>)) EXCEPT !.api_key = FALSE]}

\* The quiet-streak counter a run may find persisted.
PriorStreaks == {0, 4}

NoBlocks == [clusters |-> <<>>, upgrades |-> <<>>, meta |-> NoRet,
             snapshot |-> NoRet]

Init ==
    /\ pc = "feed"
    /\ feed \in SeqsUpTo(FeedEntries, MaxFeed)
    /\ idx = 0
    /\ hits = <<>>
    /\ sector_counts = <<>>
    /\ grouped = <<>>
    /\ blocks = NoBlocks
    /\ analysts = <<>>
    /\ report = NoRet
    /\ streak \in PriorStreaks
    /\ arg = NoRet
    /\ ret = NoRet

\* What one pass of the loop over the feed entries does with entry e.
EntryOutcome(e) ==
    IF e.updated = "" THEN "skip"
    ELSE IF e.updated = "bad" THEN "raise"
    ELSE IF e.updated = "old" THEN "skip"
    ELSE IF ~e.link THEN "skip"
    ELSE IF e.page = "httperror" THEN "raise"
    ELSE IF e.page = "noxml" THEN "skip"
    ELSE IF parse_form4(e.doc).status = "raise" THEN "raise"
    ELSE IF parse_form4(e.doc).status = "ok" THEN "hit"
    ELSE "skip"

\* One pass of the loop over the feed entries.
ProcessEntry ==
    /\ pc = "feed"
    /\ idx < Len(feed)
    /\ idx' = idx + 1
    /\ LET e == feed[idx + 1]
           parsed == parse_form4(e.doc).tx
       IN CASE EntryOutcome(e) = "skip" ->
                   UNCHANGED <<pc, hits, sector_counts>>
            [] EntryOutcome(e) = "raise" ->
                   /\ pc' = "aborted"
                   /\ UNCHANGED <<hits, sector_counts>>
            [] EntryOutcome(e) = "hit" ->
                   /\ hits' = Append(hits, parsed)
                   /\ sector_counts' =
                          CountIncr(sector_counts, infer_sector(parsed.ticker))
                   /\ pc' = pc
    /\ UNCHANGED <<feed, grouped, blocks, analysts, report, streak, arg, ret>>

\* The loop over the feed entries is over.
EndOfFeed ==
    /\ pc = "feed"
    /\ idx = Len(feed)
    /\ pc' = IF hits # <<>> THEN "group" ELSE "analysts"
    /\ UNCHANGED <<feed, idx, hits, sector_counts, grouped, blocks, analysts,
                   report, streak, arg, ret>>

RECURSIVE GroupAll(_, _)
GroupAll(g, hs) ==
    IF hs = <<>> THEN g
    ELSE GroupAll(ListAppend(g, Head(hs).ticker, Head(hs)), Tail(hs))

GroupHits_early ==
    /\ pc \in {"feed", "group"}
    /\ hits # <<>>
    /\ grouped = <<>>
    /\ grouped' = GroupAll(<<>>, hits)
    /\ pc' = IF pc = "group" THEN "clusters" ELSE pc
    /\ UNCHANGED <<feed, idx, hits, sector_counts, blocks, analysts, report,
                   streak, arg, ret>>

\* for h in hits: grouped[h["ticker"]].append(h)
GroupHits ==
    /\ pc = "group"
    /\ grouped' = GroupAll(<<>>, hits)
    /\ pc' = "clusters"
    /\ UNCHANGED <<feed, idx, hits, sector_counts, blocks, analysts, report,
                   streak, arg, ret>>

\* The card of one group: its ticker, the number of its members, the sum
\* of their totals and the members.
ClusterCard(g) ==
    [ticker |-> g.key, count |-> Len(g.val), total |-> SumTotals(g.val),
     items |-> g.val]

\* for ticker, items in grouped.items(): ...
RenderClusters ==
    /\ pc = "clusters"
    /\ blocks' = [blocks EXCEPT !.clusters =
                      [i \in 1..Len(grouped) |-> ClusterCard(grouped[i])]]
    /\ pc' = "analysts"
    /\ UNCHANGED <<feed, idx, hits, sector_counts, grouped, analysts, report,
                   streak, arg, ret>>

\* analysts = fetch_analyst_upgrades() and the card of the upgrades
FetchAnalysts ==
    /\ pc = "analysts"
    /\ \E env \in MainEnvs :
          LET r == fetch_analyst_upgrades(env)
          IN IF r.status = "raise"
             THEN /\ pc' = "aborted"
                  /\ UNCHANGED <<analysts, blocks>>
             ELSE /\ analysts' = r.results
                  /\ blocks' = [blocks EXCEPT !.upgrades = r.results]
                  /\ pc' = "meta"
    /\ UNCHANGED <<feed, idx, hits, sector_counts, grouped, report, streak,
                   arg, ret>>

\* blocks.append(meta_signal_block(len(hits), sector_counts, len(analysts)))
MetaSignals ==
    /\ pc = "meta"
    /\ blocks' = [blocks EXCEPT !.meta =
                      meta_signal_block(Len(hits), sector_counts, Len(analysts))]
    /\ pc' = "snapshot"
    /\ UNCHANGED <<feed, idx, hits, sector_counts, grouped, analysts, report,
                   streak, arg, ret>>

\* blocks.append(daily_market_snapshot(hits, analysts)) and
\* write_daily_update_html: the only thing the run leaves behind is the
\* report; the quiet-streak counter is neither read nor written.
Snapshot ==
    /\ pc = "snapshot"
    /\ blocks' = [blocks EXCEPT !.snapshot = daily_market_snapshot(hits, analysts)]
    /\ report' = blocks'
    /\ pc' = "done"
    /\ UNCHANGED <<feed, idx, hits, sector_counts, grouped, analysts, streak,
                   arg, ret>>

Next ==
    \/ ProcessEntry
    \/ EndOfFeed
    \/ GroupHits
    \/ RenderClusters
    \/ FetchAnalysts
    \/ MetaSignals
    \/ Snapshot

Spec == Init /\ [][Next]_vars

(***************************************************************************)
(* Properties of main.                                                     *)
(***************************************************************************)
AfterGrouping == pc \in {"clusters", "analysts", "meta", "snapshot", "done"}

AfterRender == pc \in {"analysts", "meta", "snapshot", "done"}

\* The hits with ticker t, in discovery order.
HitsOf(t) ==
    LET Same(h) == h.ticker = t
    IN SelectSeq(hits, Same)

\* The position of the first hit with ticker t.
FirstSeen(t) == CHOOSE k \in 1..Len(hits) :
                    /\ hits[k].ticker = t
                    /\ \A m \in 1..(k - 1) : hits[m].ticker # t

RECURSIVE SumOf(_, _)
SumOf(t, hs) ==
    IF hs = <<>> THEN 0
    ELSE (IF Head(hs).ticker = t THEN Head(hs).total ELSE 0) + SumOf(t, Tail(hs))

\* C3: the grouping is a total partition of the hits by ticker: the keys
\* are distinct, every hit is in the group of its ticker and in no other,
\* none is duplicated or omitted, the groups come in first-seen order of
\* their tickers, members keep their discovery order, and a group's total
\* and count are the sum and the number (>= 1) of its members.
C3_GroupingIsTotalPartition ==
    /\ AfterGrouping =>
          /\ \A i, j \in 1..Len(grouped) :
                i # j => grouped[i].key # grouped[j].key
          /\ \A k \in 1..Len(hits) : HasKey(grouped, hits[k].ticker)
          /\ \A i \in 1..Len(grouped) :
                /\ grouped[i].val = HitsOf(grouped[i].key)
                /\ Len(grouped[i].val) >= 1
          /\ \A i, j \in 1..Len(grouped) :
                i < j => FirstSeen(grouped[i].key) < FirstSeen(grouped[j].key)
    /\ AfterRender =>
          /\ Len(blocks.clusters) = Len(grouped)
          /\ \A i \in 1..Len(grouped) :
                /\ blocks.clusters[i].ticker = grouped[i].key
                /\ blocks.clusters[i].items = HitsOf(grouped[i].key)
                /\ blocks.clusters[i].count = Len(HitsOf(grouped[i].key))
                /\ blocks.clusters[i].count >= 1
                /\ blocks.clusters[i].total = SumOf(grouped[i].key, hits)

\* Three hits, the first and the last of one ticker and the second of
\* another, grouped and rendered.
C3_Witness ==
    /\ pc = "done"
    /\ Len(hits) = 3
    /\ hits[1].ticker = hits[3].ticker
    /\ hits[1].ticker # hits[2].ticker
    /\ Len(grouped) = 2
    /\ blocks.clusters[1].count = 2

IsBlank(t) == \A i \in 1..Len(t) : t[i] = " "

\* C8: the cluster view has exactly one cluster per distinct non-empty
\* ticker among the hits: no cluster has an empty or blank ticker as its
\* key, and a hit with such a ticker is in no cluster, though it stays in
\* the result of the run.
C8_NoClusterForEmptyTicker ==
    AfterRender =>
        /\ \A i \in 1..Len(blocks.clusters) : ~IsBlank(blocks.clusters[i].ticker)
        /\ \A i, j \in 1..Len(blocks.clusters) :
              i # j => blocks.clusters[i].ticker # blocks.clusters[j].ticker
        /\ \A k \in 1..Len(hits) :
              ~IsBlank(hits[k].ticker) <=>
                  \E i \in 1..Len(blocks.clusters) :
                      blocks.clusters[i].ticker = hits[k].ticker

\* The record is one of those the claim calls malformed.
MalformedItem(tx) ==
    \/ ~tx.coding
    \/ ~tx.dateEl
    \/ tx.amounts # "ok"
    \/ tx.shares.k = "junk"
    \/ tx.price.k = "junk"

Malformed(doc) ==
    \/ ~doc.issuer
    \/ doc.owner # "ok"
    \/ \E i \in 1..Len(doc.txs) : MalformedItem(doc.txs[i])

\* The entry is one whose document main hands to parse_form4.
IsFiling(e) == e.updated = "fresh" /\ e.link /\ e.page = "xml"

RECURSIVE WellFormedHits(_)
WellFormedHits(entries) ==
    IF entries = <<>> THEN <<>>
    ELSE LET e == Head(entries)
         IN (IF IsFiling(e) /\ ~Malformed(e.doc)
                /\ PurchaseTotal(e.doc.txs) >= MIN_CENTS
             THEN <<parse_form4(e.doc).tx>> ELSE <<>>)
            \o WellFormedHits(Tail(entries))

\* C2: a malformed filing record is dropped and the run goes on: it does
\* not end the run, and the hits of a completed run are the transactions
\* of the well-formed entries, those before and after it included.
C2_MalformedRecordDropped ==
    /\ \A k \in 1..idx :
          (IsFiling(feed[k]) /\ Malformed(feed[k].doc)) =>
              ~(pc = "aborted" /\ k = idx)
    /\ pc = "done" => hits = WellFormedHits(feed)

\* C6: the step that ends a run writes the quiet-streak counter: 0 when the
\* run has a qualifying transaction, the prior value + 1 when it has none.
C6_QuietStreakLaw ==
    [][(pc = "snapshot" /\ pc' = "done") =>
           streak' = (IF hits # <<>> THEN 0 ELSE streak + 1)]_vars

\* An aggregation step has been performed.
LateAggregation ==
    grouped # <<>> \/ blocks.clusters # <<>> \/ blocks.meta # NoRet

\* C10 as stated: nothing is aggregated, the sector histogram included,
\* before every feed entry has been normalized.
C10_NoAggregationBeforeFeedEnd ==
    (sector_counts # <<>> \/ LateAggregation) => idx = Len(feed)

\* C10: the grouping by ticker, the sums of the clusters and the choice of
\* the meta narrative are performed only when every feed entry has been
\* normalized, and from the first of them on the list of hits is never
\* extended; the sector histogram is updated inside the feed loop, once
\* for each hit as it is appended.
C10_BarrierButHistogram ==
    /\ [](LateAggregation => (idx = Len(feed) /\ pc # "feed"))
    /\ [][LateAggregation' => hits' = hits]_vars
    /\ [](SumVals(sector_counts) = Len(hits))

\* A run over three entries with a hit among them has grouped, rendered and
\* chosen the narrative.
C10_Witness ==
    /\ pc = "done"
    /\ Len(feed) = 3
    /\ Len(hits) >= 2
    /\ grouped # <<>>
    /\ blocks.meta # NoRet

====
